---------------------------- MODULE Spec2Model ----------------------------
(***************************************************************************)
(* A model of create-tag.py: loading the tag rules from the CSV file,      *)
(* resolving the Resource Explorer view, listing the resources, fetching   *)
(* their tags, and writing the tag plan (write_plan).                      *)
(*                                                                         *)
(* Python strings that the program inspects (filters, ARNs, names, tag     *)
(* keys and values, paths) are sequences of one-character strings, so that *)
(* lower(), strip(), split(), startswith() and "in" are computed as the    *)
(* code computes them.  The tag key and value of a rule are only copied,   *)
(* never inspected, and are plain strings.  None and "" are both the empty *)
(* sequence: the code only ever tests them for truthiness.                 *)
(***************************************************************************)
EXTENDS Integers, Sequences, FiniteSets, TLC

(***************************************************************************)
(* Bounds of the model.                                                    *)
(***************************************************************************)
MaxRules == 2
MaxResources == 2

(***************************************************************************)
(* Python string operations.                                               *)
(***************************************************************************)
Upper == <<"A","B","C","D","E","F","G","H","I","J","K","L","M",
           "N","O","P","Q","R","S","T","U","V","W","X","Y","Z">>
LowerLetters == <<"a","b","c","d","e","f","g","h","i","j","k","l","m",
                  "n","o","p","q","r","s","t","u","v","w","x","y","z">>

LowerOf == [c \in {Upper[i] : i \in 1..Len(Upper)} |->
               LowerLetters[CHOOSE i \in 1..Len(Upper) : Upper[i] = c]]

LowerChar(c) == IF c \in DOMAIN LowerOf THEN LowerOf[c] ELSE c

\* str.lower()
Lower(s) == [i \in 1..Len(s) |-> LowerChar(s[i])]

\* str.startswith(p)
StartsWith(s, p) == Len(p) <= Len(s) /\ SubSeq(s, 1, Len(p)) = p

\* str.endswith(p)
EndsWith(s, p) == Len(p) <= Len(s) /\ SubSeq(s, Len(s) - Len(p) + 1, Len(s)) = p

\* sub in s
Contains(sub, s) ==
    \E i \in 0..(Len(s) - Len(sub)) : SubSeq(s, i + 1, i + Len(sub)) = sub

\* str.strip()
RECURSIVE LStrip(_)
LStrip(s) == IF s # <<>> /\ Head(s) = " " THEN LStrip(Tail(s)) ELSE s
RECURSIVE RStrip(_)
RStrip(s) ==
    IF s # <<>> /\ s[Len(s)] = " " THEN RStrip(SubSeq(s, 1, Len(s) - 1)) ELSE s
Strip(s) == RStrip(LStrip(s))

\* str.split(c, maxsplit)
RECURSIVE Split(_, _, _)
Split(s, c, maxsplit) ==
    IF maxsplit = 0 \/ ~(\E i \in 1..Len(s) : s[i] = c)
    THEN <<s>>
    ELSE LET i == CHOOSE k \in 1..Len(s) :
                      s[k] = c /\ \A j \in 1..(k - 1) : s[j] # c
         IN  <<SubSeq(s, 1, i - 1)>>
                 \o Split(SubSeq(s, i + 1, Len(s)), c, maxsplit - 1)

\* str.split(c)
SplitAll(s, c) == Split(s, c, Len(s))

SeqUpTo(S, n) == UNION {[1..k -> S] : k \in 0..n}

(***************************************************************************)
(* The strings of the inputs.                                              *)
(***************************************************************************)
sAll == <<"a","l","l">>
sTagPrefix == <<"t","a","g",":">>
sName == <<"N","a","m","e">>
sDotCsv == <<".","c","s","v">>
sR1 == <<"r","1">>
sR2 == <<"r","2">>
sGlobal == <<"g","l","o","b","a","l">>
sUsEast1 == <<"u","s","-","e","a","s","t","-","1">>
sS3 == <<"s","3">>
sEc2 == <<"e","c","2">>
sEnv == <<"E","n","v">>
sEnvLower == <<"e","n","v">>
sTeam == <<"T","e","a","m">>
sPROD == <<"P","R","O","D">>
sProd == <<"p","r","o","d">>
sDevprod == <<"d","e","v","p","r","o","d">>
sWeb == <<"w","e","b">>
sWeb01 == <<"w","e","b","-","0","1">>
sNewWeb == <<"n","e","w","-","w","e","b">>
sWEB == <<"W","E","B">>
sWebster == <<"w","e","b","s","t","e","r">>
sTagEnvProd == <<"t","a","g",":","e","n","v",":","p","r","o","d">>
sS3Bucket == <<"s","3",":","b","u","c","k","e","t">>
sEc2Instance == <<"e","c","2",":","i","n","s","t","a","n","c","e">>

arnB == <<"a","r","n",":","a","w","s",":","s","3",":","r","1",":","1",":","b">>
arnBigB == <<"a","r","n",":","a","w","s",":","s","3",":",":",":","B">>
arnI2 == <<"a","r","n",":","a","w","s",":","e","c","2",":","r","2",":","1",":","i">>
arnI == <<"a","r","n",":","a","w","s",":","e","c","2",":","r","1",":","1",":","i">>
arnJ == <<"a","r","n",":","a","w","s",":","e","c","2",":","r","1",":","1",":","j">>
arnC == <<"a","r","n",":","a","w","s",":","s","3",":","r","1",":","1",":","c">>
arnShort == <<"b","k","t">>

(***************************************************************************)
(* --tags: the path of the rule file, and what csv.DictReader reads of it: *)
(* the header's columns and the rows (DictReader itself drops the lines    *)
(* that are entirely blank).                                               *)
(***************************************************************************)
PathPool == { <<"t",".","c","s","v">>, <<"t",".","t","x","t">> }

HeaderPool == { {"Filter", "TagKey", "TagValue"},
                {"Filter", "TagValue"},
                {"TagKey", "TagValue"} }

Row(f, k, v) == [Filter |-> f, TagKey |-> k, TagValue |-> v]

RulePool ==
    { Row(<<" ","e","c","2"," ">>, "Backup", "Daily"),
      Row(<<"E","C","2",":","I","n","s","t","a","n","c","e">>, "Backup", "Daily"),
      Row(sWEB, "App", "Exact"),
      Row(<<"~","W","e","b">>, "App", "CRM"),
      Row(<<"t","a","g",":","E","n","v",":","p","r","o","d">>, "Tier", "Gold"),
      Row(<<"t","a","g",":","e","n","v",":","~","P","R","O">>, "Tier", "Any"),
      Row(<<"~","t","a","g",":","e","n","v",":","p","r","o","d">>, "Tier", "Odd"),
      Row(<<"A","l","l">>, "Owner", "Team"),
      Row(<<"~","a","l","l">>, "Owner", "Part"),
      Row(<<"#"," ","n","o","t","e">>, "x", "y") }

\* --region
RegionPool == { sR1, sR2 }

(***************************************************************************)
(* The account: what Resource Explorer lists and the tags the tagging API  *)
(* returns for an ARN.                                                     *)
(***************************************************************************)
Res(a, s, t, r) == [Arn |-> a, Service |-> s, ResourceType |-> t, Region |-> r]
Tag(k, v) == [Key |-> k, Value |-> v]

ResourcePool ==
    { Res(arnI, sEc2, <<"i","n","s","t","a","n","c","e">>, sR1),
      Res(arnBigB, <<"S","3">>, <<"B","u","c","k","e","t">>, << >>),
      Res(arnI2, sEc2, sEc2Instance, sR2),
      Res(arnJ, sEc2, << >>, sR1),
      Res(arnB, sS3, sS3Bucket, sR1),
      Res(<< >>, sS3, sS3Bucket, sR1),
      Res(arnC, << >>, sS3Bucket, sR1),
      Res(arnShort, sS3, sS3Bucket, sR1) }

CloudTags(arn) ==
    CASE arn = arnI -> << Tag(sEnv, sPROD), Tag(sName, sWeb) >>
      [] arn = arnBigB -> << Tag(sName, sWEB) >>
      [] arn = arnI2 -> << Tag(sName, sNewWeb), Tag(sEnvLower, sDevprod) >>
      [] arn = arnJ -> << Tag(sName, sAll) >>
      [] arn = arnB -> << Tag(sTeam, sProd), Tag(sName, sTagEnvProd) >>
      [] arn = arnC -> << Tag(sName, sWebster) >>
      [] arn = arnShort -> << Tag(sName, sWeb01) >>
      [] OTHER -> << >>

\* The view ARNs list_views returns, each as the '/'-separated parts of its
\* sixth ':'-separated field.
ViewName == <<"v">>
ViewPool == { << >>,
              << <<<<"v","i","e","w">>, <<"v">>, <<"u">>>> >>,
              << <<<<"v","i","e","w">>, <<"o">>, <<"u">>>> >>,
              << <<<<"v","i","e","w">>, <<"v">>>>,
                 <<<<"v","i","e","w">>, <<"o">>, <<"u">>>>,
                 <<<<"v","i","e","w">>, <<"v">>, <<"u">>>> >> }

VARIABLES
    tagsPath,    \* args.tags
    csvHeader,   \* the columns of the rule file's header row
    csvRows,     \* the rows csv.DictReader yields
    region,      \* args.region
    pc,          \* where main() is
    tag_rules,   \* load_tag_rules' tag_map, in insertion order
    view_arn,    \* get_view_arn's result (<<>> for None)
    resources,   \* get_all_resources' list, with "Tags" once fetched
    idx,         \* write_plan: the position of "for res in resources"
    tags,        \* write_plan: the tags list of the last resource processed
    written,     \* write_plan: the set of rows written
    rows,        \* the rows of the plan file, after its header
    log,         \* the lines of the log file
    outcome,     \* write_plan: how the last resource's iteration ended
    runNo,       \* the first or the second execution over the same input
    prevRows     \* the plan rows of the first execution

vars == << tagsPath, csvHeader, csvRows, region, pc, tag_rules, view_arn,
           resources, idx, tags, written, rows, log, outcome, runNo, prevRows >>

inputs == << tagsPath, csvHeader, csvRows, region >>

LogLine(kind, arn, key, value) ==
    [kind |-> kind, arn |-> arn, Key |-> key, Value |-> value]

(***************************************************************************)
(* load_tag_rules                                                          *)
(***************************************************************************)
\* tag_map.get(key, [])
DictGet(map, key) ==
    IF \E i \in 1..Len(map) : map[i].key = key
    THEN map[CHOOSE i \in 1..Len(map) : map[i].key = key].rules
    ELSE << >>

\* tag_map[key].append(rule), tag_map a defaultdict(list)
DictAppend(map, key, rule) ==
    IF \E i \in 1..Len(map) : map[i].key = key
    THEN [i \in 1..Len(map) |->
             IF map[i].key = key
             THEN [map[i] EXCEPT !.rules = Append(@, rule)]
             ELSE map[i]]
    ELSE Append(map, [key |-> key, rules |-> <<rule>>])

\* The loop over the reader's rows: the map and the log when the rows are
\* exhausted, or err when a row lacks a column the code reads (KeyError).
RECURSIVE LoadRows(_, _, _, _)
LoadRows(header, left, map, lg) ==
    IF left = << >> THEN [err |-> FALSE, map |-> map, log |-> lg]
    ELSE IF "Filter" \notin header THEN [err |-> TRUE, map |-> map, log |-> lg]
    ELSE
      LET row == Head(left)
          filter_value == Strip(row.Filter)
      IN  IF filter_value = << >> \/ StartsWith(filter_value, <<"#">>)
          THEN LoadRows(header, Tail(left), map,
                        Append(lg, LogLine("rule_skipped", row.Filter, "", "")))
          ELSE
            LET partial == StartsWith(filter_value, <<"~">>)
                stripped == IF partial THEN Tail(filter_value) ELSE filter_value
                lg2 == Append(lg, LogLine("rule", row.Filter, "", ""))
            IN  IF "TagKey" \notin header \/ "TagValue" \notin header
                THEN [err |-> TRUE, map |-> map, log |-> lg2]
                ELSE LoadRows(header, Tail(left),
                              DictAppend(map, Lower(stripped),
                                         [Key |-> row.TagKey,
                                          Value |-> row.TagValue,
                                          Partial |-> partial]),
                              lg2)

LoadTagRules ==
    /\ pc = "load"
    /\ IF ~EndsWith(tagsPath, sDotCsv)
       THEN /\ pc' = "exit"
            /\ log' = Append(log, LogLine("error_not_csv", tagsPath, "", ""))
            /\ UNCHANGED tag_rules
       ELSE LET r == LoadRows(csvHeader, csvRows, << >>, log)
            IN  IF r.err
                THEN /\ pc' = "crashed"
                     /\ log' = r.log
                     /\ UNCHANGED tag_rules
                ELSE /\ pc' = "view"
                     /\ log' = Append(r.log, LogLine("using_rules", tagsPath, "", ""))
                     /\ tag_rules' = r.map
    /\ UNCHANGED << inputs, view_arn, resources, idx, tags, written, rows,
                    outcome, runNo, prevRows >>

(***************************************************************************)
(* get_view_arn: the first view whose name part equals the view name.      *)
(***************************************************************************)
ViewMatches(parts) == Len(parts) >= 3 /\ parts[Len(parts) - 1] = ViewName

FindView(views) ==
    IF \E i \in 1..Len(views) : ViewMatches(views[i])
    THEN views[CHOOSE i \in 1..Len(views) :
                   ViewMatches(views[i])
                   /\ \A j \in 1..(i - 1) : ~ViewMatches(views[j])]
    ELSE << >>

GetViewArn ==
    /\ pc = "view"
    /\ \E views \in ViewPool :
         /\ view_arn' = FindView(views)
         /\ IF FindView(views) = << >>
            THEN /\ pc' = "exit"
                 /\ log' = Append(log, LogLine("error_no_view", ViewName, "", ""))
            ELSE /\ pc' = "list"
                 /\ log' = Append(log, LogLine("discovering", ViewName, "", ""))
    /\ UNCHANGED << inputs, tag_rules, resources, idx, tags, written, rows,
                    outcome, runNo, prevRows >>

(***************************************************************************)
(* get_all_resources: the pages of list_resources, concatenated.           *)
(***************************************************************************)
GetAllResources ==
    /\ pc = "list"
    /\ resources' \in SeqUpTo(ResourcePool, MaxResources)
    /\ pc' = "tags"
    /\ UNCHANGED << inputs, tag_rules, view_arn, idx, tags, written, rows, log,
                    outcome, runNo, prevRows >>

(***************************************************************************)
(* get_tags_for_resources: one get_resources call per region's batch; a    *)
(* batch whose call raises leaves its resources without tags.              *)
(***************************************************************************)
ClientRegion(res) ==
    LET r == IF res.Region # << >> THEN res.Region ELSE sGlobal
    IN  IF r = sGlobal THEN sUsEast1 ELSE r

GetTagsForResources ==
    /\ pc = "tags"
    /\ \E failed \in SUBSET {ClientRegion(resources[i]) : i \in 1..Len(resources)} :
         /\ resources' =
              [i \in 1..Len(resources) |->
                 [Arn |-> resources[i].Arn,
                  Service |-> resources[i].Service,
                  ResourceType |-> resources[i].ResourceType,
                  Region |-> resources[i].Region,
                  Tags |-> IF ClientRegion(resources[i]) \in failed
                           THEN << >>
                           ELSE CloudTags(resources[i].Arn)]]
         /\ log' = log \o [i \in 1..Cardinality(failed) |->
                             LogLine("tags_batch_failed", << >>, "", "")]
    /\ pc' = "plan"
    /\ UNCHANGED << inputs, tag_rules, view_arn, idx, tags, written, rows,
                    outcome, runNo, prevRows >>

(***************************************************************************)
(* write_plan                                                              *)
(***************************************************************************)
\* get_resource_name: the value of the first tag whose key is "Name"
GetResourceName(ts) ==
    IF \E i \in 1..Len(ts) : ts[i].Key = sName
    THEN ts[CHOOSE i \in 1..Len(ts) :
                ts[i].Key = sName /\ \A j \in 1..(i - 1) : ts[j].Key # sName].Value
    ELSE << >>

\* get_match_keys: a Python set
GetMatchKeys(service, subtype, arn, name) ==
    (IF arn # << >> THEN {arn} ELSE {})
    \cup (IF name # << >> THEN {name} ELSE {})
    \cup (IF subtype # << >>
          THEN IF Contains(<<":">>, Lower(subtype))
               THEN {Lower(subtype)}
               ELSE {Lower(service) \o <<":">> \o Lower(subtype)}
          ELSE {})
    \cup {Lower(service)}

\* The orders in which "for key in match_keys" may iterate over a set: the
\* order of a Python set of strings is that of the strings' hashes, which
\* differ from one execution of the interpreter to the next.
IterationOrders(S) ==
    {f \in [1..Cardinality(S) -> S] :
        \A i, j \in 1..Cardinality(S) : i # j => f[i] # f[j]}

\* The keys of the set under which tag_rules holds rules: the loop body does
\* nothing for the others, so only the order of these is chosen.
KeysWithRules(keys, map) == {k \in keys : \E i \in 1..Len(map) : map[i].key = k}

RegionMismatchIgnoringEmpty(arn_region, region_filter) ==
    arn_region # region_filter

\* arn_region and arn_region != region_filter
RegionMismatch(arn_region, region_filter) ==
    arn_region # << >> /\ arn_region # region_filter

\* One entry of the tags list; via and filter record, beside the Key and
\* Value that the code appends, which loop appended it and under which key of
\* tag_rules the rule is held.
Emit(rule, via, filter) ==
    [Key |-> rule.Key, Value |-> rule.Value, Partial |-> rule.Partial,
     via |-> via, filter |-> filter]

EmitAll(rule_list, via, filter) ==
    [i \in 1..Len(rule_list) |-> Emit(rule_list[i], via, filter)]

IsPartial(rule) == rule.Partial

IsNotPartial(rule) == ~rule.Partial

\* "Exact matches": for key in match_keys, the rules that are not partial
RECURSIVE ExactMatches(_, _)
ExactMatches(order, map) ==
    IF order = << >> THEN << >>
    ELSE EmitAll(SelectSeq(DictGet(map, Head(order)), IsNotPartial),
                 "exact", Head(order))
           \o ExactMatches(Tail(order), map)

\* rule.get("Partial") and rule_key in name_value
PartialNameHit(rule_key, name_value) == Contains(rule_key, name_value)

\* "Partial matches for Name"
RECURSIVE NameMatches(_, _)
NameMatches(map, name_value) ==
    IF map = << >> THEN << >>
    ELSE (IF PartialNameHit(Head(map).key, name_value)
          THEN EmitAll(SelectSeq(Head(map).rules, IsPartial), "name", Head(map).key)
          ELSE << >>)
           \o NameMatches(Tail(map), name_value)

TagValueMatchesPrefix(partial, tag_value_filter, resource_tag_value) ==
    \/ partial /\ StartsWith(Lower(resource_tag_value), Lower(tag_value_filter))
    \/ ~partial /\ Lower(resource_tag_value) = Lower(tag_value_filter)

\* The test of one resource tag's value against the rule's value filter
TagValueMatches(partial, tag_value_filter, resource_tag_value) ==
    \/ partial /\ Contains(Lower(tag_value_filter), Lower(resource_tag_value))
    \/ ~partial /\ Lower(resource_tag_value) = Lower(tag_value_filter)

\* for tag in res.get("Tags", []): the rules of the key, once per tag that matches
RECURSIVE TagLoop(_, _, _)
TagLoop(res_tags, entry, parts) ==
    IF res_tags = << >> THEN << >>
    ELSE LET tag_key == parts[2]
             tag_value == parts[3]
             partial == StartsWith(tag_value, <<"~">>)
             tag_value_filter == IF partial THEN Tail(tag_value) ELSE tag_value
             tag == Head(res_tags)
         IN  (IF /\ Lower(tag.Key) = Lower(tag_key)
                 /\ TagValueMatches(partial, tag_value_filter, tag.Value)
              THEN EmitAll(entry.rules, "tag", entry.key)
              ELSE << >>)
               \o TagLoop(Tail(res_tags), entry, parts)

\* "Tag key/value filter"
RECURSIVE TagMatches(_, _)
TagMatches(map, res_tags) ==
    IF map = << >> THEN << >>
    ELSE (IF /\ StartsWith(Head(map).key, sTagPrefix)
             /\ Len(Split(Head(map).key, ":", 2)) = 3
          THEN TagLoop(res_tags, Head(map), Split(Head(map).key, ":", 2))
          ELSE << >>)
           \o TagMatches(Tail(map), res_tags)

\* The tags list of one resource before "if tags:"
SpecificTags(res, order, map) ==
    LET name_value == GetResourceName(res.Tags)
    IN  ExactMatches(order, map)
          \o (IF name_value # << >> THEN NameMatches(map, name_value) ELSE << >>)
          \o TagMatches(map, res.Tags)

\* if tags: tags += tag_rules.get("all", [])
WithCatchAll(ts, map) ==
    IF ts # << >> THEN ts \o EmitAll(DictGet(map, sAll), "all", sAll) ELSE ts

PlanRow(arn, tag) == [arn |-> arn, Key |-> tag.Key, Value |-> tag.Value]

IsNewRowAlways(row, wr) == TRUE

\* row not in written
IsNewRow(row, wr) == row \notin wr

\* for tag in tags: the row is written unless it was written before
RECURSIVE WriteRows(_, _, _)
WriteRows(ts, arn, st) ==
    IF ts = << >> THEN st
    ELSE LET row == PlanRow(arn, Head(ts))
         IN  IF IsNewRow(row, st.written)
             THEN WriteRows(Tail(ts), arn,
                            [written |-> st.written \cup {row},
                             rows |-> Append(st.rows, row),
                             log |-> Append(st.log,
                                            LogLine("wrote", arn, row.Key, row.Value))])
             ELSE WriteRows(Tail(ts), arn, st)

\* One iteration of "for res in resources"
WritePlanStep ==
    /\ pc = "plan"
    /\ idx <= Len(resources)
    /\ LET res == resources[idx]
           arn == res.Arn
           service == res.Service
           subtype == res.ResourceType
           arn_parts == SplitAll(arn, ":")
       IN  IF arn = << >> \/ service = << >>
           THEN /\ idx' = idx + 1
                /\ outcome' = "malformed"
                /\ tags' = << >>
                /\ UNCHANGED << pc, written, rows, log >>
           ELSE IF Len(arn_parts) < 4
           THEN \* arn_parts[3] raises IndexError
                /\ pc' = "crashed"
                /\ outcome' = "crashed"
                /\ tags' = << >>
                /\ UNCHANGED << idx, written, rows, log >>
           ELSE IF RegionMismatch(arn_parts[4], region)
           THEN /\ idx' = idx + 1
                /\ outcome' = "region"
                /\ tags' = << >>
                /\ log' = Append(log, LogLine("skip_region", arn, "", ""))
                /\ UNCHANGED << pc, written, rows >>
           ELSE \E order \in IterationOrders(KeysWithRules(
                       GetMatchKeys(service, subtype, arn, GetResourceName(res.Tags)),
                       tag_rules)) :
                  LET ts == WithCatchAll(SpecificTags(res, order, tag_rules), tag_rules)
                      st == WriteRows(ts, arn,
                                      [written |-> written, rows |-> rows, log |-> log])
                  IN  /\ idx' = idx + 1
                      /\ tags' = ts
                      /\ UNCHANGED pc
                      /\ IF ts # << >>
                         THEN /\ outcome' = "matched"
                              /\ written' = st.written
                              /\ rows' = st.rows
                              /\ log' = st.log
                         ELSE /\ outcome' = "nomatch"
                              /\ log' = Append(log, LogLine("nomatch", arn, "", ""))
                              /\ UNCHANGED << written, rows >>
    /\ UNCHANGED << inputs, tag_rules, view_arn, resources, runNo, prevRows >>

\* The end of the loop, and of main()
Finish ==
    /\ pc = "plan"
    /\ idx > Len(resources)
    /\ pc' = "done"
    /\ log' = Append(log, LogLine("tag_plan", << >>, "", ""))
    /\ UNCHANGED << inputs, tag_rules, view_arn, resources, idx, tags, written,
                    rows, outcome, runNo, prevRows >>

Init ==
    /\ tagsPath \in PathPool
    /\ csvHeader \in HeaderPool
    /\ csvRows \in SeqUpTo(RulePool, MaxRules)
    /\ region \in RegionPool
    /\ pc = "load"
    /\ tag_rules = << >>
    /\ view_arn = << >>
    /\ resources = << >>
    /\ idx = 1
    /\ tags = << >>
    /\ written = {}
    /\ rows = << >>
    /\ log = << >>
    /\ outcome = "none"
    /\ runNo = 1
    /\ prevRows = << >>

Next ==
    \/ LoadTagRules
    \/ GetViewArn
    \/ GetAllResources
    \/ GetTagsForResources
    \/ WritePlanStep
    \/ Finish

Spec == Init /\ [][Next]_vars

(***************************************************************************)
(* A second execution of write_plan, by a new interpreter, over the rules  *)
(* and the resources of the first.                                         *)
(***************************************************************************)
RunAgain ==
    /\ pc = "done"
    /\ runNo = 1
    /\ runNo' = 2
    /\ prevRows' = rows
    /\ pc' = "plan"
    /\ idx' = 1
    /\ tags' = << >>
    /\ written' = {}
    /\ rows' = << >>
    /\ log' = << >>
    /\ outcome' = "none"
    /\ UNCHANGED << inputs, tag_rules, view_arn, resources >>

NextTwoRuns == Next \/ RunAgain

SpecTwoRuns == Init /\ [][NextTwoRuns]_vars

(***************************************************************************)
(* write_plan alone, entered with the rules load_tag_rules builds of a     *)
(* well-formed rule file and with resources whose tags were fetched.       *)
(***************************************************************************)
PlanRulePool ==
    { Row(<<" ","e","c","2"," ">>, "Backup", "Daily"),
      Row(<<"E","C","2",":","I","n","s","t","a","n","c","e">>, "Backup", "Daily"),
      Row(<<"t","a","g",":","E","n","v",":","p","r","o","d">>, "Tier", "Gold"),
      Row(<<"t","a","g",":","e","n","v",":","~","P","R","O">>, "Tier", "Any"),
      Row(<<"A","l","l">>, "Owner", "Team") }

PlanResourcePool ==
    { Res(arnI, sEc2, <<"i","n","s","t","a","n","c","e">>, sR1),
      Res(arnBigB, <<"S","3">>, <<"B","u","c","k","e","t">>, << >>),
      Res(arnI2, sEc2, sEc2Instance, sR2),
      Res(arnB, sS3, sS3Bucket, sR1),
      Res(<< >>, sS3, sS3Bucket, sR1),
      Res(arnShort, sS3, sS3Bucket, sR1) }

\* res["Tags"] = tags_map.get(arn, [])
WithTags(res) ==
    [Arn |-> res.Arn, Service |-> res.Service, ResourceType |-> res.ResourceType,
     Region |-> res.Region, Tags |-> CloudTags(res.Arn)]

InitPlan ==
    /\ tagsPath \in {path \in PathPool : EndsWith(path, sDotCsv)}
    /\ csvHeader = {"Filter", "TagKey", "TagValue"}
    /\ csvRows \in SeqUpTo(PlanRulePool, MaxRules)
    /\ region \in RegionPool
    /\ pc = "plan"
    /\ tag_rules = LoadRows(csvHeader, csvRows, << >>, << >>).map
    /\ view_arn \in {FindView(views) : views \in ViewPool} \ {<< >>}
    /\ resources \in {[i \in 1..Len(l) |-> WithTags(l[i])] :
                         l \in SeqUpTo(PlanResourcePool, MaxResources)}
    /\ idx = 1
    /\ tags = << >>
    /\ written = {}
    /\ rows = << >>
    /\ log = LoadRows(csvHeader, csvRows, << >>, << >>).log
    /\ outcome = "none"
    /\ runNo = 1
    /\ prevRows = << >>

NextPlan == WritePlanStep \/ Finish

SpecPlan == InitPlan /\ [][NextPlan]_vars

(***************************************************************************)
(* What the claims speak of.                                               *)
(***************************************************************************)
\* The resource of the last iteration of write_plan's loop, once there is one
HasLast == pc \in {"plan", "done"} /\ idx > 1
LastRes == resources[idx - 1]

\* The last iteration reached the matching (it was not skipped)
LastMatched == HasLast /\ outcome \in {"matched", "nomatch"}

RowSet == {rows[i] : i \in 1..Len(rows)}
TagsOf(ts) == {ts[i] : i \in 1..Len(ts)}

WellFormed(res) ==
    res.Arn # << >> /\ res.Service # << >> /\ Len(SplitAll(res.Arn, ":")) >= 4

\* The region of an identifier: its 4th ':'-delimited field
RegionField(arn) == SplitAll(arn, ":")[4]

EqIgnoreCase(a, b) == Lower(a) = Lower(b)
ContainsIgnoreCase(sub, s) == Contains(Lower(sub), Lower(s))

\* The rule rows of the file that are neither blank nor comments
RuleRows ==
    {csvRows[i] : i \in {j \in 1..Len(csvRows) :
        Strip(csvRows[j].Filter) # << >> /\ Head(Strip(csvRows[j].Filter)) # "#"}}

\* The filter f is tag:<K>:<rest>, K ending at position n
IsTagForm(f, n) ==
    /\ Len(f) >= 5 /\ n \in 5..Len(f)
    /\ Lower(SubSeq(f, 1, 4)) = sTagPrefix
    /\ f[n] = ":"
    /\ \A m \in 5..(n - 1) : f[m] # ":"

HasTag(res, K, V, partial) ==
    \E i \in 1..Len(res.Tags) :
      /\ EqIgnoreCase(res.Tags[i].Key, K)
      /\ IF partial
         THEN ContainsIgnoreCase(V, res.Tags[i].Value)
         ELSE EqIgnoreCase(res.Tags[i].Value, V)

(***************************************************************************)
(* C1: the rows written by one run of write_plan never hold the same       *)
(* (identifier, tagKey, tagValue) triple twice.                            *)
(***************************************************************************)
C1_NoDuplicateRows ==
    \A i, j \in 1..Len(rows) : i # j => rows[i] # rows[j]

\* The same identifier was processed twice, and its tags list itself held the
\* same tag twice.
C1_Witness ==
    /\ HasLast /\ outcome = "matched" /\ idx = 3
    /\ resources[1].Arn = resources[2].Arn
    /\ \E i, j \in 1..Len(tags) :
          i # j /\ tags[i].Key = tags[j].Key /\ tags[i].Value = tags[j].Value
    /\ rows # << >>

(***************************************************************************)
(* C2: a resource whose identifier's region (4th field, when non-empty)    *)
(* differs from the region filter has no output row; a resource whose      *)
(* region field is empty or equals the filter is not skipped by the guard. *)
(***************************************************************************)
C2_RegionGuard ==
    (pc \in {"plan", "done"}) =>
      \A i \in 1..(idx - 1) :
        WellFormed(resources[i]) =>
          LET arn == resources[i].Arn
              mismatch == RegionField(arn) # << >> /\ RegionField(arn) # region
              skipped == \E j \in 1..Len(log) :
                            log[j].kind = "skip_region" /\ log[j].arn = arn
          IN  /\ mismatch => (\A r \in RowSet : r.arn # arn)
              /\ ~mismatch => ~skipped
              /\ (~mismatch /\ i = idx - 1) => outcome \in {"matched", "nomatch"}

\* A resource of another region, for whose service a rule exists, was
\* skipped, while a resource of the filter's region got its rows.
C2_Witness ==
    /\ HasLast /\ outcome = "region"
    /\ DictGet(tag_rules, Lower(LastRes.Service)) # << >>
    /\ rows # << >>
    /\ \A r \in RowSet : r.arn # LastRes.Arn

(***************************************************************************)
(* C3: the tags of the catch-all rules (filterKey 'all') appear in the     *)
(* rows of a processed resource if and only if some rule with a filterKey  *)
(* other than 'all' matched it by exact key, partial name or tag filter.   *)
(***************************************************************************)
C3_CatchAllIffOtherRuleMatched ==
    LET catchAll == SelectSeq(DictGet(tag_rules, sAll), IsNotPartial)
    IN  (LastMatched /\ catchAll # << >>) =>
          ( (\A i \in 1..Len(catchAll) :
                PlanRow(LastRes.Arn, catchAll[i]) \in RowSet)
            <=> (\E t \in TagsOf(tags) : t.via # "all" /\ t.filter # sAll) )

(***************************************************************************)
(* C4: a partial rule ~k emits its tag for a processed resource that has a *)
(* Name value n if and only if lower(k) is a substring of lower(n).        *)
(***************************************************************************)
C4_PartialNameIgnoresCase ==
    LastMatched =>
      LET n == GetResourceName(LastRes.Tags)
      IN  n # << >> =>
            \A row \in RuleRows :
              LET f == Strip(row.Filter)
              IN  Head(f) = "~" =>
                    ( (\E t \in TagsOf(tags) :
                          /\ t.via = "name" /\ t.filter = Lower(Tail(f))
                          /\ t.Key = row.TagKey /\ t.Value = row.TagValue)
                      <=> Contains(Lower(Tail(f)), Lower(n)) )

C6_SameRowsOnSecondRun ==
    (runNo = 2 /\ pc = "done") => rows = prevRows

(***************************************************************************)
(* C7: given a rule file that lacks the TagKey column (or another column,  *)
(* or yields no records), the run aborts in load_tag_rules: the view is    *)
(* never resolved, nothing is fetched and no row is written.               *)
(***************************************************************************)
C7_MalformedRuleFileAborts ==
    ( \/ "TagKey" \notin csvHeader
      \/ "Filter" \notin csvHeader
      \/ csvRows = << >> )
    => /\ pc \in {"load", "crashed", "exit"}
       /\ view_arn = << >> /\ resources = << >> /\ rows = << >>

(***************************************************************************)
(* C8: every entry of a resource's match key set is lower-cased, and a     *)
(* non-partial rule whose filter equals the resource's identifier, Name,   *)
(* service or type key up to letter case emits its tag for the resource.   *)
(***************************************************************************)
C8_ExactMatchIgnoresCase ==
    LastMatched =>
      LET name == GetResourceName(LastRes.Tags)
          keys == GetMatchKeys(LastRes.Service, LastRes.ResourceType,
                               LastRes.Arn, name)
      IN  \A row \in RuleRows, k \in keys :
            LET f == Strip(row.Filter)
            IN  (Head(f) # "~" /\ EqIgnoreCase(f, k)) =>
                  /\ k = Lower(k)
                  /\ \E t \in TagsOf(tags) :
                        /\ t.via = "exact"
                        /\ t.Key = row.TagKey /\ t.Value = row.TagValue

(***************************************************************************)
(* C9: the iteration over a resource that lacks its identifier or its      *)
(* service writes no row, writes a log line for the skip, and goes on to   *)
(* the next resource.                                                      *)
(***************************************************************************)
C9_MalformedSkippedAndLogged ==
    [][ ( /\ pc = "plan" /\ idx <= Len(resources)
          /\ (resources[idx].Arn = << >> \/ resources[idx].Service = << >>) )
        => /\ rows' = rows
           /\ pc' = "plan" /\ idx' = idx + 1
           /\ Len(log') = Len(log) + 1 ]_vars

(***************************************************************************)
(* C10: a row of a processed resource that carries the tag of a partial    *)
(* rule ~k, which no rule that is not partial emitted, is there only if    *)
(* the resource has a Name value that contains k.                          *)
(***************************************************************************)
C10_PartialRuleOnlyByName ==
    LastMatched =>
      \A row \in RuleRows :
        LET f == Strip(row.Filter)
            n == GetResourceName(LastRes.Tags)
        IN  ( /\ Head(f) = "~"
              /\ PlanRow(LastRes.Arn, [Key |-> row.TagKey, Value |-> row.TagValue])
                    \in RowSet
              /\ ~\E t \in TagsOf(tags) :
                    ~t.Partial /\ t.Key = row.TagKey /\ t.Value = row.TagValue )
            => (n # << >> /\ ContainsIgnoreCase(Tail(f), n))
=============================================================================
